---------------------------- MODULE Spec2Model ----------------------------
(***************************************************************************)
(* platform-wheels: the build-order resolver (read_packages.py) and the    *)
(* wheel index builder (generate_index.py).                                *)
(*                                                                         *)
(* Python strings are sequences of one-character strings, so that split,   *)
(* join, replace, lower, isdigit and the ordering used by list.sort are    *)
(* computed character by character.                                        *)
(***************************************************************************)
EXTENDS Integers, Sequences, FiniteSets, TLC

(***************************************************************************)
(* Bounds of the model.                                                    *)
(***************************************************************************)
\* total number of build_dependencies entries over the records of one list
MaxDepEntries == 3

(***************************************************************************)
(* Strings.                                                                *)
(***************************************************************************)
Digits == {"0", "1", "2", "3", "4", "5", "6", "7", "8", "9"}
Upper == {"A", "B", "P", "Y", "M", "L"}
Lower == {"a", "b", "p", "q", "y", "m", "l", "w", "h", "x", "z"}
Chars == Digits \cup Upper \cup Lower \cup {"-", "_", "."}

\* ord(c): the code point, which is what Python compares strings by
Ord(c) ==
    CASE c = "-" -> 45 [] c = "." -> 46
      [] c = "0" -> 48 [] c = "1" -> 49 [] c = "2" -> 50 [] c = "3" -> 51
      [] c = "4" -> 52 [] c = "5" -> 53 [] c = "6" -> 54 [] c = "7" -> 55
      [] c = "8" -> 56 [] c = "9" -> 57
      [] c = "A" -> 65 [] c = "B" -> 66 [] c = "L" -> 76 [] c = "M" -> 77
      [] c = "P" -> 80 [] c = "Y" -> 89
      [] c = "_" -> 95
      [] c = "a" -> 97 [] c = "b" -> 98 [] c = "h" -> 104 [] c = "l" -> 108
      [] c = "m" -> 109 [] c = "p" -> 112 [] c = "q" -> 113
      [] c = "w" -> 119 [] c = "x" -> 120
      [] c = "y" -> 121 [] c = "z" -> 122

\* s < t for Python str: the first differing character decides, a proper
\* prefix is smaller
StrLess(s, t) ==
    \E i \in 1..Len(t) :
        /\ i <= Len(s) + 1
        /\ \A j \in 1..(i - 1) : s[j] = t[j]
        /\ IF i = Len(s) + 1 THEN TRUE ELSE Ord(s[i]) < Ord(t[i])

\* list.sort() on a list of strings, smallest first (stable insertion)
RECURSIVE InsertSorted(_, _)
InsertSorted(x, q) ==
    IF q = <<>> THEN <<x>>
    ELSE IF StrLess(x, Head(q)) THEN <<x>> \o q
    ELSE <<Head(q)>> \o InsertSorted(x, Tail(q))

RECURSIVE SortList(_)
\* list.sort(key=len): names of one length stay in the order they have
RECURSIVE InsertByLen(_, _)
InsertByLen(x, q) ==
    IF q = <<>> THEN <<x>>
    ELSE IF Len(x) < Len(Head(q)) THEN <<x>> \o q
    ELSE <<Head(q)>> \o InsertByLen(x, Tail(q))

RECURSIVE SortListByLen(_)
SortListByLen(q) ==
    IF q = <<>> THEN <<>>
    ELSE InsertByLen(q[Len(q)], SortListByLen(SubSeq(q, 1, Len(q) - 1)))

SortList(q) ==
    IF q = <<>> THEN <<>>
    ELSE InsertSorted(q[Len(q)], SortList(SubSeq(q, 1, Len(q) - 1)))

Range(s) == {s[i] : i \in 1..Len(s)}

(***************************************************************************)
(* read_packages.topological_sort                                          *)
(***************************************************************************)
VARIABLES
    packages_data,      \* the argument: a list of package records
    pkg_map,            \* name -> record
    graph,              \* name -> list of the names that depend on it
    in_degree,          \* name -> number of resolvable dependencies left
    queue,              \* the ready list
    sorted_packages,    \* the output list
    remaining,          \* the names the circular-dependency error reports
    stderr,             \* what was printed to sys.stderr
    sort_pc             \* "start", "loop", "returned", "exit1", or "idle"

sortVars == <<packages_data, pkg_map, graph, in_degree, queue,
              sorted_packages, remaining, stderr, sort_pc>>

\* the names of a list of records, as a set
NamesOf(pd) == {pd[i].name : i \in 1..Len(pd)}

\* dict.items() order: keys in the order of their first insertion
RECURSIVE KeyOrder(_)
KeyOrder(pd) ==
    IF pd = <<>> THEN <<>>
    ELSE LET front == KeyOrder(SubSeq(pd, 1, Len(pd) - 1))
             n == pd[Len(pd)].name
         IN  IF n \in Range(front) THEN front ELSE Append(front, n)

\* {pkg['name']: pkg for pkg in packages_data}: a later record replaces an
\* earlier one of the same name
PkgMap(pd) ==
    [n \in NamesOf(pd) |->
        pd[CHOOSE i \in 1..Len(pd) :
              /\ pd[i].name = n
              /\ \A j \in (i + 1)..Len(pd) : pd[j].name # n]]

\* lines 223-224: the edge dep -> name and the in-degree it adds (the
\* mutant drops the in-degree)
AddEdgeNoDegree(st, name, dep) ==
    [st EXCEPT !.graph[dep] = Append(@, name)]

AddEdge(st, name, dep) ==
    [st EXCEPT !.graph[dep] = Append(@, name),
               !.in_degree[name] = @ + 1]

\* line 226: a dependency that is no record's name (the mutant counts it
\* as an in-degree all the same)
MissingDepCounted(st, name, dep) ==
    [st EXCEPT !.stderr = Append(@, <<"Warning", name, dep>>),
               !.in_degree[name] = @ + 1]

MissingDep(st, name, dep) ==
    [st EXCEPT !.stderr = Append(@, <<"Warning", name, dep>>)]

\* the inner loop over pkg.get('build_dependencies', []) of one record
RECURSIVE AddDeps(_, _, _)
AddDeps(st, name, deps) ==
    IF deps = <<>> THEN st
    ELSE LET dep == Head(deps)
             st1 == IF dep \in DOMAIN st.pkg_map
                    THEN AddEdge(st, name, dep)
                    ELSE MissingDep(st, name, dep)
         IN  AddDeps(st1, name, Tail(deps))

\* the outer loop over packages_data
RECURSIVE AddPkgs(_, _)
AddPkgs(st, pd) ==
    IF pd = <<>> THEN st
    ELSE AddPkgs(AddDeps(st, Head(pd).name, Head(pd).build_dependencies),
                 Tail(pd))

\* lines 214-230: the maps, the edges, the first ready list
BuildGraph(pd) ==
    LET st0 == [pkg_map   |-> PkgMap(pd),
                graph     |-> [n \in NamesOf(pd) |-> <<>>],
                in_degree |-> [n \in NamesOf(pd) |-> 0],
                stderr    |-> <<>>]
        st1 == AddPkgs(st0, pd)
    IN  [pkg_map   |-> st1.pkg_map,
         graph     |-> st1.graph,
         in_degree |-> st1.in_degree,
         stderr    |-> st1.stderr,
         queue     |-> SelectSeq(KeyOrder(pd),
                                 LAMBDA n : st1.in_degree[n] = 0),
         sorted_packages |-> <<>>]

\* line 240: in_degree[neighbor] == 0 after the decrement (the mutant
\* lets a record through with one dependency still unbuilt)
ReadyBelowTwo(deg) == deg = 0 \/ deg = 1

ReadyAfterDecrement(deg) == deg = 0

\* for neighbor in graph[current]
RECURSIVE Relax(_, _)
Relax(st, neighbors) ==
    IF neighbors = <<>> THEN st
    ELSE LET nb == Head(neighbors)
             deg == st.in_degree[nb] - 1
             st1 == [st EXCEPT !.in_degree[nb] = deg,
                               !.queue = IF ReadyAfterDecrement(deg)
                                         THEN Append(@, nb) ELSE @]
         IN  Relax(st1, Tail(neighbors))

\* line 234: queue.sort() (the mutant forgets to sort)
QueueUnsorted(q) == q

QueueSort(q) == SortList(q)

\* one pass of the body of `while queue`
KahnIter(st) ==
    LET q1 == QueueSort(st.queue)
        current == Head(q1)
        st1 == [st EXCEPT !.queue = Tail(q1),
                          !.sorted_packages = Append(@, st.pkg_map[current])]
    IN  Relax(st1, st.graph[current])

RECURSIVE KahnLoop(_)
KahnLoop(st) == IF st.queue = <<>> THEN st ELSE KahnLoop(KahnIter(st))

\* remaining = [name for name, degree in in_degree.items() if degree > 0]
\* (the mutant tests degree >= 0)
RemainingNonNegative(pd, deg) == SelectSeq(KeyOrder(pd), LAMBDA n : deg[n] >= 0)

Remaining(pd, deg) == SelectSeq(KeyOrder(pd), LAMBDA n : deg[n] > 0)

\* the whole function: what it returns, or the sys.exit(1) it ends in
TopologicalSort(pd) ==
    LET st == KahnLoop(BuildGraph(pd))
    IN  IF Len(st.sorted_packages) # Len(pd)
        THEN [exit |-> 1, remaining |-> Remaining(pd, st.in_degree),
              stderr |-> st.stderr]
        ELSE [exit |-> 0, sorted_packages |-> st.sorted_packages,
              stderr |-> st.stderr]

(***************************************************************************)
(* The inputs of topological_sort.                                         *)
(***************************************************************************)
\* package names: "B" < "a" < "ab" in Python's order
RecordNames == {<<"B">>, <<"a">>, <<"a", "b">>}

\* what a build_dependencies entry may name: a package, or "z", which no
\* record is called
DepNames == RecordNames \cup {<<"z">>}

SeqsUpTo(S, n) == UNION {[1..k -> S] : k \in 0..n}

\* lists of pairwise distinct names
NameLists ==
    {s \in SeqsUpTo(RecordNames, Cardinality(RecordNames)) :
        \A i, j \in 1..Len(s) : i # j => s[i] # s[j]}

\* the records for a list of names, numbered from k, sharing `budget`
\* dependency entries; 'spec' stands for the metadata carried through
RECURSIVE RecordLists(_, _, _)
RecordLists(names, k, budget) ==
    IF names = <<>> THEN {<<>>}
    ELSE UNION {
           {<<[name |-> Head(names), build_dependencies |-> deps,
               spec |-> k]>> \o rest :
                rest \in RecordLists(Tail(names), k + 1, budget - Len(deps))}
           : deps \in SeqsUpTo(DepNames, budget)}

SortInputs == UNION {RecordLists(s, 1, MaxDepEntries) : s \in NameLists}

SortIdle ==
    /\ packages_data = <<>> /\ pkg_map = <<>> /\ graph = <<>>
    /\ in_degree = <<>> /\ queue = <<>> /\ sorted_packages = <<>>
    /\ remaining = <<>> /\ stderr = <<>> /\ sort_pc = "idle"

\* the call topological_sort(packages_data) is about to run
SortInit ==
    /\ packages_data \in SortInputs
    /\ pkg_map = <<>> /\ graph = <<>> /\ in_degree = <<>>
    /\ queue = <<>> /\ sorted_packages = <<>>
    /\ remaining = <<>> /\ stderr = <<>>
    /\ sort_pc = "start"

\* lines 213-230
SortBuild ==
    /\ sort_pc = "start"
    /\ LET st == BuildGraph(packages_data)
       IN  /\ pkg_map' = st.pkg_map
           /\ graph' = st.graph
           /\ in_degree' = st.in_degree
           /\ stderr' = stderr \o st.stderr
           /\ queue' = st.queue
           /\ sorted_packages' = st.sorted_packages
    /\ sort_pc' = "loop"
    /\ UNCHANGED <<packages_data, remaining>>

\* lines 232-241: one iteration of the Kahn loop
SortStep ==
    /\ sort_pc = "loop"
    /\ queue # <<>>
    /\ LET st == KahnIter([pkg_map |-> pkg_map, graph |-> graph,
                           in_degree |-> in_degree, queue |-> queue,
                           sorted_packages |-> sorted_packages])
       IN  /\ in_degree' = st.in_degree
           /\ queue' = st.queue
           /\ sorted_packages' = st.sorted_packages
    /\ UNCHANGED <<packages_data, pkg_map, graph, remaining, stderr, sort_pc>>

\* lines 243-247: the loop is over and a record was left out
SortFail ==
    /\ sort_pc = "loop"
    /\ queue = <<>>
    /\ Len(sorted_packages) # Len(packages_data)
    /\ remaining' = Remaining(packages_data, in_degree)
    /\ stderr' = Append(stderr, <<"Error: Circular dependency", remaining'>>)
    /\ sort_pc' = "exit1"
    /\ UNCHANGED <<packages_data, pkg_map, graph, in_degree, queue,
                   sorted_packages>>

\* line 249
SortReturn ==
    /\ sort_pc = "loop"
    /\ queue = <<>>
    /\ Len(sorted_packages) = Len(packages_data)
    /\ sort_pc' = "returned"
    /\ UNCHANGED <<packages_data, pkg_map, graph, in_degree, queue,
                   sorted_packages, remaining, stderr>>

(***************************************************************************)
(* String methods used by generate_index.py.                               *)
(***************************************************************************)
\* the value None: a one-element sequence that is no string, since every
\* string here is a sequence of one-character strings
None == <<"None">>

\* bool(v) of a str-or-None value
Truthy(v) == v # None /\ v # <<>>

Str(s) == s

WHL == <<".", "w", "h", "l">>

HasPrefix(s, pat) ==
    Len(pat) <= Len(s) /\ SubSeq(s, 1, Len(pat)) = pat

\* s.replace(pat, rep) for a non-empty pat: every occurrence, found from
\* the left, without overlap
RECURSIVE Replace(_, _, _)
Replace(s, pat, rep) ==
    IF s = <<>> THEN <<>>
    ELSE IF HasPrefix(s, pat)
         THEN rep \o Replace(SubSeq(s, Len(pat) + 1, Len(s)), pat, rep)
         ELSE <<Head(s)>> \o Replace(Tail(s), pat, rep)

\* s.split(sep) for a one-character sep: never an empty list
RECURSIVE Split(_, _)
Split(s, sep) ==
    IF \A i \in 1..Len(s) : s[i] # sep THEN <<s>>
    ELSE LET k == CHOOSE i \in 1..Len(s) :
                      s[i] = sep /\ \A j \in 1..(i - 1) : s[j] # sep
         IN  <<SubSeq(s, 1, k - 1)>> \o Split(SubSeq(s, k + 1, Len(s)), sep)

\* sep.join(parts)
RECURSIVE Join(_, _)
Join(parts, sep) ==
    IF parts = <<>> THEN <<>>
    ELSE IF Len(parts) = 1 THEN parts[1]
    ELSE parts[1] \o sep \o Join(Tail(parts), sep)

\* c.isdigit(), on the characters of the model
IsDigit(c) == c \in Digits

LowerChar(c) ==
    CASE c = "A" -> "a" [] c = "B" -> "b" [] c = "L" -> "l" [] c = "M" -> "m"
      [] c = "P" -> "p" [] c = "Y" -> "y" [] OTHER -> c

\* s.lower()
LowerStr(s) == [i \in 1..Len(s) |-> LowerChar(s[i])]

\* c in s
Contains(s, c) == \E i \in 1..Len(s) : s[i] = c

(***************************************************************************)
(* generate_index.get_package_name_from_wheel                              *)
(***************************************************************************)
\* line 30: wheel_filename.replace('.whl', '') (the mutant lower-cases the
\* name on the way)
StripExtLowered(wheel_filename) == LowerStr(Replace(wheel_filename, WHL, <<>>))

StripExt(wheel_filename) == Replace(wheel_filename, WHL, <<>>)

\* line 38: part and part[0].isdigit()
LooksLikeVersion(part) == part # <<>> /\ IsDigit(part[1])

\* line 40-42 (the mutant keeps the first segment only)
NameBeforeFirstOnly(parts, i) ==
    Replace(Join(SubSeq(parts, 1, 1), <<"-">>), <<"_">>, <<"-">>)

NameBefore(parts, i) ==
    Replace(Join(SubSeq(parts, 1, i - 1), <<"-">>), <<"_">>, <<"-">>)

\* lines 37-47, from part number i on (numbered from 1)
RECURSIVE ScanForVersion(_, _)
ScanForVersion(parts, i) ==
    IF i > Len(parts)
    THEN IF parts # <<>>
         THEN Replace(parts[1], <<"_">>, <<"-">>)
         ELSE None
    ELSE IF LooksLikeVersion(parts[i])
         THEN NameBefore(parts, i)
         ELSE ScanForVersion(parts, i + 1)

GetPackageNameFromWheel(wheel_filename) ==
    ScanForVersion(Split(StripExt(wheel_filename), "-"), 1)

(***************************************************************************)
(* generate_index.rename_wheel_for_alias                                   *)
(***************************************************************************)
\* line 78 (the mutant always writes new_name as given)
NewPackageNameVerbatim(old_package_parts, new_name) == new_name

NewPackageName(old_package_parts, new_name) ==
    IF Contains(Join(old_package_parts, <<"-">>), "_")
    THEN Replace(new_name, <<"-">>, <<"_">>)
    ELSE new_name

\* lines 69-83, from part number i on: a version-like part whose prefix is
\* not old_name does not end the loop
RECURSIVE RenameScan(_, _, _, _, _)
RenameScan(wheel_filename, parts, i, old_name, new_name) ==
    IF i > Len(parts) THEN wheel_filename
    ELSE IF LooksLikeVersion(parts[i])
         THEN LET old_package_parts == SubSeq(parts, 1, i - 1)
                  old_package_name ==
                      Replace(Join(old_package_parts, <<"-">>), <<"_">>, <<"-">>)
              IN  IF LowerStr(old_package_name) = LowerStr(old_name)
                  THEN Join(<<NewPackageName(old_package_parts, new_name)>>
                               \o SubSeq(parts, i, Len(parts)), <<"-">>) \o WHL
                  ELSE RenameScan(wheel_filename, parts, i + 1, old_name, new_name)
         ELSE RenameScan(wheel_filename, parts, i + 1, old_name, new_name)

RenameWheelForAlias(wheel_filename, old_name, new_name) ==
    RenameScan(wheel_filename, Split(Replace(wheel_filename, WHL, <<>>), "-"),
               1, old_name, new_name)

(***************************************************************************)
(* Calls of the two functions on one filename.                             *)
(***************************************************************************)
\* most '-'-separated segments of a filename
MaxSegments == 3

VARIABLES
    wheel_filename,     \* the filename both functions are called on
    package_name,       \* what get_package_name_from_wheel returned
    old_name,           \* the arguments of rename_wheel_for_alias
    new_name,
    renamed,            \* what rename_wheel_for_alias returned
    restored,           \* what the rename of renamed, the other way, returned
    name_pc             \* "start", "parsed", "renamed", "restored", or "idle"

nameVars == <<wheel_filename, package_name, old_name, new_name, renamed,
              restored, name_pc>>

\* the '-'-free pieces filenames are made of: "", "a", "A", "a_a", "1",
\* and "a.whl", which holds the extension in its middle
SegmentPool ==
    {<<>>, <<"a">>, <<"A">>, <<"a", "_", "a">>, <<"1">>,
     <<"a", ".", "w", "h", "l">>}

\* with and without the extension
Filenames ==
    {Join(segs, <<"-">>) \o ext :
        segs \in SeqsUpTo(SegmentPool, MaxSegments) \ {<<>>},
        ext \in {<<>>, WHL}}

\* old_name and new_name: "a", "A", "a-a", "a-1"
AliasNamePool ==
    {<<"a">>, <<"A">>, <<"a", "-", "a">>, <<"a", "-", "1">>}

\* a variable no call has assigned yet
Unset == <<"unset">>

NameIdle ==
    /\ wheel_filename = Unset /\ package_name = Unset /\ old_name = Unset
    /\ new_name = Unset /\ renamed = Unset /\ restored = Unset
    /\ name_pc = "idle"

NameInit ==
    /\ wheel_filename \in Filenames
    /\ package_name = Unset /\ old_name = Unset /\ new_name = Unset
    /\ renamed = Unset /\ restored = Unset
    /\ name_pc = "start"

\* package_name = get_package_name_from_wheel(wheel_filename)
CallGetPackageName ==
    /\ name_pc = "start"
    /\ package_name' = GetPackageNameFromWheel(wheel_filename)
    /\ name_pc' = "parsed"
    /\ UNCHANGED <<wheel_filename, old_name, new_name, renamed, restored>>

\* renamed = rename_wheel_for_alias(wheel_filename, old_name, new_name)
CallRename ==
    /\ name_pc = "parsed"
    /\ \E o \in AliasNamePool, n \in AliasNamePool :
          /\ old_name' = o
          /\ new_name' = n
          /\ renamed' = RenameWheelForAlias(wheel_filename, o, n)
    /\ name_pc' = "renamed"
    /\ UNCHANGED <<wheel_filename, package_name, restored>>

\* restored = rename_wheel_for_alias(renamed, new_name, old_name)
CallRenameBack ==
    /\ name_pc = "renamed"
    /\ restored' = RenameWheelForAlias(renamed, new_name, old_name)
    /\ name_pc' = "restored"
    /\ UNCHANGED <<wheel_filename, package_name, old_name, new_name, renamed>>

(***************************************************************************)
(* generate_index.main: the index builder.                                 *)
(*                                                                         *)
(* The run starts after the argument checks of lines 173-188: wheels_dir   *)
(* exists and output_dir, a directory apart from it, is empty.  A wheel    *)
(* path is <<subdirectory, filename>> below wheels_dir.                    *)
(***************************************************************************)
\* most archives below wheels_dir
MaxArchives == 3
\* most entries of packages_metadata.json
MaxMetadata == 2

VARIABLES
    wheels_dir,         \* the archives: a set of [path, content]
    packages_metadata,  \* the list loaded from packages_metadata.json
    package_aliases,    \* lower-cased wheel name -> configured name
    alias_to_canonical, \* lower-cased configured name -> wheel name
    globbed,            \* the paths wheels_dir.glob has yielded so far
    packages,           \* the groups, in insertion order: [name, wheels]
    all_package_names,  \* the names collected for the root index
    site,               \* output_dir: directory -> [files, index]
    root_index,         \* output_dir/index.html: the names it links, or Unset
    stdout,             \* the warnings printed
    next_group,         \* how many groups the loop of line 235 has done
    previous_output,    \* the pages of the build before this one, or Unset
    index_pc            \* "load", "scan", "groups", "done", or "idle"

indexVars == <<wheels_dir, packages_metadata, package_aliases,
               alias_to_canonical, globbed, packages, all_package_names,
               site, root_index, stdout, next_group, previous_output,
               index_pc>>

\* d[k] = v on a dict
Put(d, k, v) == [x \in DOMAIN d \cup {k} |-> IF x = k THEN v ELSE d[x]]

\* d.get(k)
Get(d, k) == IF k \in DOMAIN d THEN d[k] ELSE None

\* hashlib sha256 of a content: one digest per content
CalculateHash(content) == <<"sha256", content>>

\* lines 197-208, over the entries of the list in order
RECURSIVE LoadMetadata(_, _)
LoadMetadata(maps, metadata) ==
    IF metadata = <<>> THEN maps
    ELSE LET pkg == Head(metadata)
             maps1 ==
                 IF pkg.alias # <<>>
                 THEN [package_aliases |->
                           Put(maps.package_aliases, LowerStr(pkg.alias), pkg.name),
                       alias_to_canonical |->
                           Put(maps.alias_to_canonical, LowerStr(pkg.name), pkg.alias)]
                 ELSE maps
         IN  LoadMetadata(maps1, Tail(metadata))

\* the grouping with keys compared without regard to case
AppendToGroupFolded(groups, pkg_name, wheel) ==
    IF \E i \in 1..Len(groups) : LowerStr(groups[i].name) = LowerStr(pkg_name)
    THEN [i \in 1..Len(groups) |->
            IF LowerStr(groups[i].name) = LowerStr(pkg_name)
            THEN [groups[i] EXCEPT !.wheels = Append(@, wheel)]
            ELSE groups[i]]
    ELSE Append(groups, [name |-> pkg_name, wheels |-> <<wheel>>])

\* packages[package_name].append((wheel_file, wheel_path)) on the
\* defaultdict: a new key goes last
AppendToGroup(groups, pkg_name, wheel) ==
    IF \E i \in 1..Len(groups) : groups[i].name = pkg_name
    THEN [i \in 1..Len(groups) |->
            IF groups[i].name = pkg_name
            THEN [groups[i] EXCEPT !.wheels = Append(@, wheel)]
            ELSE groups[i]]
    ELSE Append(groups, [name |-> pkg_name, wheels |-> <<wheel>>])

\* lines 119-136: hash, rename, copy and link the wheels one by one;
\* dir is [files, links]
RECURSIVE LinkWheels(_, _, _, _, _)
LinkWheels(dir, wheels, contents, rename_from, rename_to) ==
    IF wheels = <<>> THEN dir
    ELSE LET wheel_file == Head(wheels)[1]
             wheel_path == Head(wheels)[2]
             file_hash == CalculateHash(contents[wheel_path])
             display_wheel_file ==
                 IF Truthy(rename_from) /\ Truthy(rename_to)
                 THEN RenameWheelForAlias(wheel_file, rename_from, rename_to)
                 ELSE wheel_file
             dir1 == [files |-> Put(dir.files, display_wheel_file,
                                    contents[wheel_path]),
                      links |-> Append(dir.links,
                                       <<display_wheel_file, file_hash>>)]
         IN  LinkWheels(dir1, Tail(wheels), contents, rename_from, rename_to)

\* generate_package_index: the directory is kept if it is there, the
\* files are copied into it and index.html is written anew
GeneratePackageIndex(tree, pkg_name, wheels, contents, rename_from, rename_to) ==
    LET before == IF pkg_name \in DOMAIN tree
                  THEN tree[pkg_name].files ELSE <<>>
        dir == LinkWheels([files |-> before, links |-> <<>>], wheels,
                          contents, rename_from, rename_to)
    IN  Put(tree, pkg_name, [files |-> dir.files, index |-> dir.links])

\* line 244: configured_name and configured_name != package_name
HasAlias(configured_name, pkg_name) ==
    Truthy(configured_name) /\ configured_name # pkg_name

\* the body of the loop without line 249: the configured name is not
\* collected for the root index
GroupBodyAliasUnlisted(st, group, contents, aliases) ==
    LET tree1 == GeneratePackageIndex(st.site, group.name, group.wheels,
                                      contents, None, None)
        configured_name == Get(aliases, LowerStr(group.name))
    IN  IF HasAlias(configured_name, group.name)
        THEN [site |-> GeneratePackageIndex(tree1, configured_name, group.wheels,
                                            contents, group.name, configured_name),
              all_package_names |-> st.all_package_names \cup {group.name}]
        ELSE [site |-> tree1,
              all_package_names |-> st.all_package_names \cup {group.name}]

\* lines 236-249: the body of the loop over packages.items()
GroupBody(st, group, contents, aliases) ==
    LET tree1 == GeneratePackageIndex(st.site, group.name, group.wheels,
                                      contents, None, None)
        configured_name == Get(aliases, LowerStr(group.name))
    IN  IF HasAlias(configured_name, group.name)
        THEN [site |-> GeneratePackageIndex(tree1, configured_name, group.wheels,
                                            contents, group.name, configured_name),
              all_package_names |->
                  st.all_package_names \cup {group.name, configured_name}]
        ELSE [site |-> tree1,
              all_package_names |-> st.all_package_names \cup {group.name}]

\* sorted(packages) of generate_root_index, given a set
RECURSIVE SortedNamesOf(_)
SortedNamesOf(S) ==
    IF S = {} THEN <<>>
    ELSE LET least == CHOOSE n \in S : \A m \in S \ {n} : StrLess(n, m)
         IN  <<least>> \o SortedNamesOf(S \ {least})

\* generate_root_index that writes nothing when there is no package
GenerateRootIndexUnlessEmpty(pkgs) ==
    IF pkgs = {} THEN Unset ELSE SortedNamesOf(pkgs)

\* generate_root_index: the names index.html links, in the order of the links
GenerateRootIndex(pkgs) == SortedNamesOf(pkgs)

(***************************************************************************)
(* The inputs of the index builder.                                        *)
(***************************************************************************)
WheelPy == <<"P", "y", "-", "1">> \o WHL
Wheelpy == <<"p", "y", "-", "1">> \o WHL

\* "Py-1.whl" and "py-1.whl", "Py-1.whl" again in a subdirectory,
\* "a_a-1.whl" and "a-a-1.whl" of one identity, and "1-a.whl" of none
ArchivePool ==
    {[path |-> <<"", WheelPy>>, content |-> "c1"],
     [path |-> <<"", Wheelpy>>, content |-> "c2"],
     [path |-> <<"sub", WheelPy>>, content |-> "c3"],
     [path |-> <<"", <<"a", "_", "a", "-", "1">> \o WHL>>, content |-> "c4"],
     [path |-> <<"", <<"a", "-", "a", "-", "1">> \o WHL>>, content |-> "c5"],
     [path |-> <<"", <<"1", "-", "a">> \o WHL>>, content |-> "c6"]}

\* entries of packages_metadata.json: name "py" for wheel "Py", name "x"
\* for wheel "a-a", name "q" for wheel "Py" as well, and "py" without alias
MetadataPool ==
    {[name |-> <<"p", "y">>, alias |-> <<"P", "y">>],
     [name |-> <<"x">>, alias |-> <<"a", "-", "a">>],
     [name |-> <<"q">>, alias |-> <<"P", "y">>],
     [name |-> <<"p", "y">>, alias |-> <<>>]}

Paths(dir) == {w.path : w \in dir}

\* path -> content
Contents(dir) == [p \in Paths(dir) |-> (CHOOSE w \in dir : w.path = p).content]

\* what a build leaves for a reader of the site: the names index.html
\* links and the links of every listing page
Output(root, tree) ==
    [root_index |-> root, pages |-> [n \in DOMAIN tree |-> tree[n].index]]

\* no build has gone before
NoOutput == Output(Unset, <<>>)

IndexIdle ==
    /\ wheels_dir = {} /\ packages_metadata = <<>>
    /\ package_aliases = <<>> /\ alias_to_canonical = <<>>
    /\ globbed = {} /\ packages = <<>> /\ all_package_names = {}
    /\ site = <<>> /\ root_index = Unset /\ stdout = <<>>
    /\ next_group = 0 /\ previous_output = NoOutput /\ index_pc = "idle"

IndexInit ==
    /\ wheels_dir \in {d \in SUBSET ArchivePool : Cardinality(d) <= MaxArchives}
    /\ packages_metadata \in SeqsUpTo(MetadataPool, MaxMetadata)
    /\ package_aliases = <<>> /\ alias_to_canonical = <<>>
    /\ globbed = {} /\ packages = <<>> /\ all_package_names = {}
    /\ site = <<>> /\ root_index = Unset /\ stdout = <<>>
    /\ next_group = 0 /\ previous_output = NoOutput /\ index_pc = "load"

\* lines 190-210
IndexLoad ==
    /\ index_pc = "load"
    /\ LET maps == LoadMetadata([package_aliases |-> <<>>,
                                 alias_to_canonical |-> <<>>],
                                packages_metadata)
       IN  /\ package_aliases' = maps.package_aliases
           /\ alias_to_canonical' = maps.alias_to_canonical
    /\ index_pc' = "scan"
    /\ UNCHANGED <<wheels_dir, packages_metadata, globbed, packages,
                   all_package_names, site, root_index, stdout, next_group>>
    /\ UNCHANGED previous_output

\* lines 215-223: glob yields one more path, in no particular order
IndexScan ==
    /\ index_pc = "scan"
    /\ \E wheel_path \in Paths(wheels_dir) \ globbed :
          LET wheel_file == wheel_path[2]
              name == GetPackageNameFromWheel(wheel_file)
          IN  /\ globbed' = globbed \cup {wheel_path}
              /\ IF Truthy(name)
                 THEN /\ packages' = AppendToGroup(packages, name,
                                                   <<wheel_file, wheel_path>>)
                      /\ UNCHANGED stdout
                 ELSE /\ stdout' = Append(stdout, <<"Warning", wheel_file>>)
                      /\ UNCHANGED packages
    /\ UNCHANGED <<wheels_dir, packages_metadata, package_aliases,
                   alias_to_canonical, all_package_names, site, root_index,
                   next_group, index_pc>>
    /\ UNCHANGED previous_output

\* lines 225-229: nothing was grouped
IndexEmpty ==
    /\ index_pc = "scan"
    /\ globbed = Paths(wheels_dir)
    /\ packages = <<>>
    /\ stdout' = Append(stdout, <<"Warning: No wheel files found">>)
    /\ root_index' = GenerateRootIndex({})
    /\ index_pc' = "done"
    /\ UNCHANGED <<wheels_dir, packages_metadata, package_aliases,
                   alias_to_canonical, globbed, packages, all_package_names,
                   site, next_group>>
    /\ UNCHANGED previous_output

\* lines 231-232: the scan is over and there are groups
IndexStartGroups ==
    /\ index_pc = "scan"
    /\ globbed = Paths(wheels_dir)
    /\ packages # <<>>
    /\ all_package_names' = {}
    /\ index_pc' = "groups"
    /\ UNCHANGED <<wheels_dir, packages_metadata, package_aliases,
                   alias_to_canonical, globbed, packages, site, root_index,
                   stdout, next_group>>
    /\ UNCHANGED previous_output

\* lines 235-249: the next group's page, and its alias page
IndexGroup ==
    /\ index_pc = "groups"
    /\ next_group < Len(packages)
    /\ LET st == GroupBody([site |-> site,
                            all_package_names |-> all_package_names],
                           packages[next_group + 1], Contents(wheels_dir),
                           package_aliases)
       IN  /\ site' = st.site
           /\ all_package_names' = st.all_package_names
    /\ next_group' = next_group + 1
    /\ UNCHANGED <<wheels_dir, packages_metadata, package_aliases,
                   alias_to_canonical, globbed, packages, root_index, stdout,
                   index_pc>>
    /\ UNCHANGED previous_output

\* line 252
IndexRoot ==
    /\ index_pc = "groups"
    /\ next_group = Len(packages)
    /\ root_index' = GenerateRootIndex(all_package_names)
    /\ index_pc' = "done"
    /\ UNCHANGED <<wheels_dir, packages_metadata, package_aliases,
                   alias_to_canonical, globbed, packages, all_package_names,
                   site, stdout, next_group>>
    /\ UNCHANGED previous_output

\* the builder is started once more, on the same wheels_dir and the same
\* packages_metadata.json, with an empty output_dir
IndexRunAgain ==
    /\ index_pc = "done"
    /\ previous_output = NoOutput
    /\ previous_output' = Output(root_index, site)
    /\ package_aliases' = <<>> /\ alias_to_canonical' = <<>>
    /\ globbed' = {} /\ packages' = <<>> /\ all_package_names' = {}
    /\ site' = <<>> /\ root_index' = Unset /\ stdout' = <<>>
    /\ next_group' = 0 /\ index_pc' = "load"
    /\ UNCHANGED <<wheels_dir, packages_metadata>>

(***************************************************************************)
(* read_packages.main: the configuration sources, the call of              *)
(* topological_sort and the build plan.                                    *)
(*                                                                         *)
(* recipes_dir holds the entries of recipes/ in the sorted order of line    *)
(* 109: a plain file ("file"), a subdirectory without recipe.yaml          *)
(* ("empty"), with a recipe.yaml that has no 'package' ("invalid"), or     *)
(* with a recipe ("recipe"). packages.yaml holds a mapping with a list     *)
(* 'packages' whose entries are mappings ("mapping") or not ("scalar").    *)
(* A name or a version of <<>> stands for a key that is absent. PyYAML is  *)
(* installed.                                                              *)
(***************************************************************************)
\* most entries of one configuration source
MaxConfigEntries == 2

VARIABLES
    recipes_dir,        \* recipes/: [exists, entries]
    yaml_file,          \* packages.yaml: [exists, entries]
    txt_file,           \* packages.txt: [exists, entries], the lines
    build_plan,         \* the lists main printed to sys.stdout
    main_pc             \* "recipes", "yaml", "txt", "check", "sorting",
                        \* "done", "exit1", or "idle"

mainVars == <<recipes_dir, yaml_file, txt_file, build_plan, main_pc>>

\* lines 43-52, 137-147: the record of a recipe or of an entry of
\* packages.yaml; spec is the name followed by the version, if any
PackageInfo(pkg) ==
    [name |-> pkg.name, build_dependencies |-> pkg.build_dependencies,
     spec |-> pkg.name \o pkg.version]

\* what a reader hands back: the records, and what it printed to sys.stderr
Read(records, printed) == [packages_data |-> records, stderr |-> printed]

\* read_recipe on entry number i of recipes/: the record, if there is one,
\* and the warning of line 34 or of line 40; below a plain file, as in a
\* subdirectory without it, there is no recipe.yaml (lines 27-28)
ReadRecipe(recipe_dir, i) ==
    IF recipe_dir.kind \in {"empty", "file"} THEN Read(<<>>, <<>>)
    ELSE IF recipe_dir.kind = "invalid"
         THEN Read(<<>>, <<<<"Warning: Invalid recipe", i>>>>)
    ELSE IF recipe_dir.name = <<>>
         THEN Read(<<>>, <<<<"Warning: Recipe missing package name", i>>>>)
    ELSE Read(<<PackageInfo(recipe_dir)>>, <<>>)

\* lines 109-113, from entry number i on
RECURSIVE ReadRecipeDirs(_, _)
ReadRecipeDirs(entries, i) ==
    IF i > Len(entries) THEN Read(<<>>, <<>>)
    ELSE LET first == IF entries[i].kind = "file"
                      THEN Read(<<>>, <<>>)
                      ELSE ReadRecipe(entries[i], i)
             rest == ReadRecipeDirs(entries, i + 1)
         IN  Read(first.packages_data \o rest.packages_data,
                  first.stderr \o rest.stderr)

ReadRecipesDir(dir) ==
    IF ~dir.exists THEN Read(<<>>, <<>>) ELSE ReadRecipeDirs(dir.entries, 1)

\* lines 131-172: the loop over config.get('packages', [])
RECURSIVE ReadYamlEntries(_)
ReadYamlEntries(entries) ==
    IF entries = <<>> THEN Read(<<>>, <<>>)
    ELSE LET pkg == Head(entries)
             first ==
                 IF pkg.kind # "mapping"
                 THEN Read(<<>>, <<<<"Warning: Invalid package entry", pkg>>>>)
                 ELSE IF pkg.name = <<>>
                 THEN Read(<<>>, <<<<"Warning: Package entry missing name", pkg>>>>)
                 ELSE Read(<<PackageInfo(pkg)>>, <<>>)
             rest == ReadYamlEntries(Tail(entries))
         IN  Read(first.packages_data \o rest.packages_data,
                  first.stderr \o rest.stderr)

ReadYamlConfig(config_file) == ReadYamlEntries(config_file.entries)

Whitespace == {" ", "\t", "\n", "\r"}

\* line.strip()
RECURSIVE Strip(_)
Strip(line) ==
    IF line = <<>> THEN <<>>
    ELSE IF Head(line) \in Whitespace THEN Strip(Tail(line))
    ELSE IF line[Len(line)] \in Whitespace
         THEN Strip(SubSeq(line, 1, Len(line) - 1))
         ELSE line

\* s.split(pat)[0]
RECURSIVE BeforeFirst(_, _)
BeforeFirst(s, pat) ==
    IF s = <<>> \/ HasPrefix(s, pat) THEN <<>>
    ELSE <<Head(s)>> \o BeforeFirst(Tail(s), pat)

\* line 190
NameOfSpec(line) ==
    BeforeFirst(BeforeFirst(BeforeFirst(BeforeFirst(BeforeFirst(BeforeFirst(
        line, <<"=", "=">>), <<">", "=">>), <<"<", "=">>), <<"!", "=">>),
        <<"~", "=">>), <<"[">>)

\* read_txt_config: a record for every line that is not empty and no comment
RECURSIVE ReadTxtLines(_)
ReadTxtLines(lines) ==
    IF lines = <<>> THEN <<>>
    ELSE LET line == Strip(Head(lines))
         IN  IF line = <<>> \/ HasPrefix(line, <<"#">>)
             THEN ReadTxtLines(Tail(lines))
             ELSE <<[name |-> NameOfSpec(line), build_dependencies |-> <<>>,
                     spec |-> line]>> \o ReadTxtLines(Tail(lines))

ReadTxtConfig(config_file) == ReadTxtLines(config_file.entries)

\* lines 269-275: the packages of packages.yaml whose names are not among
\* existing_names are appended, the others are noted
RECURSIVE MergeYaml(_, _, _)
MergeYaml(st, yaml_packages, existing_names) ==
    IF yaml_packages = <<>> THEN st
    ELSE LET pkg == Head(yaml_packages)
             st1 == IF pkg.name \notin existing_names
                    THEN [st EXCEPT !.packages_data = Append(@, pkg)]
                    ELSE [st EXCEPT !.stderr =
                              Append(@, <<"Note: already defined", pkg.name>>)]
         IN  MergeYaml(st1, Tail(yaml_packages), existing_names)

\* the entries of recipes/: the recipe "a" version 1 that needs "B", a
\* recipe without a name, and a plain file
RecipePool ==
    {[kind |-> "recipe", name |-> <<"a">>, version |-> <<"1">>,
      build_dependencies |-> <<<<"B">>>>],
     [kind |-> "recipe", name |-> <<>>, version |-> <<>>,
      build_dependencies |-> <<>>],
     [kind |-> "file", name |-> <<>>, version |-> <<>>,
      build_dependencies |-> <<>>]}

\* the entries of packages.yaml: "a" version 2, "B" that needs "a", and one
\* without a name
YamlPool ==
    {[kind |-> "mapping", name |-> <<"a">>, version |-> <<"2">>,
      build_dependencies |-> <<>>],
     [kind |-> "mapping", name |-> <<"B">>, version |-> <<>>,
      build_dependencies |-> <<<<"a">>>>],
     [kind |-> "mapping", name |-> <<>>, version |-> <<>>,
      build_dependencies |-> <<>>]}

\* the lines of packages.txt: "a", " B==3" and "#a"
TxtPool ==
    {<<"a">>, <<" ", "B", "=", "=", "3">>, <<"#", "a">>}

\* a source that is not there, or is there with up to MaxConfigEntries entries
Sources(pool) ==
    {[exists |-> FALSE, entries |-> <<>>]} \cup
    {[exists |-> TRUE, entries |-> e] : e \in SeqsUpTo(pool, MaxConfigEntries)}

MainIdle ==
    /\ recipes_dir = [exists |-> FALSE, entries |-> <<>>]
    /\ yaml_file = [exists |-> FALSE, entries |-> <<>>]
    /\ txt_file = [exists |-> FALSE, entries |-> <<>>]
    /\ build_plan = <<>> /\ main_pc = "idle"

\* line 258
MainInit ==
    /\ recipes_dir \in Sources(RecipePool)
    /\ yaml_file \in Sources(YamlPool)
    /\ txt_file \in Sources(TxtPool)
    /\ build_plan = <<>> /\ main_pc = "recipes"
    /\ SortIdle

\* lines 260-263
MainReadRecipes ==
    /\ main_pc = "recipes"
    /\ IF recipes_dir.exists /\ recipes_dir.entries # <<>>
       THEN LET read == ReadRecipesDir(recipes_dir)
            IN  /\ stderr' = Append(stderr, <<"Reading from recipes/ directory">>)
                                  \o read.stderr
                /\ packages_data' = read.packages_data
       ELSE UNCHANGED <<stderr, packages_data>>
    /\ main_pc' = "yaml"
    /\ UNCHANGED <<pkg_map, graph, in_degree, queue, sorted_packages,
                   remaining, sort_pc, recipes_dir, yaml_file, txt_file,
                   build_plan>>

\* lines 265-276
MainReadYaml ==
    /\ main_pc = "yaml"
    /\ IF yaml_file.exists
       THEN LET read == ReadYamlConfig(yaml_file)
                st == MergeYaml(
                        [packages_data |-> packages_data,
                         stderr |-> Append(stderr, <<"Reading from packages.yaml">>)
                                        \o read.stderr],
                        read.packages_data, NamesOf(packages_data))
            IN  /\ packages_data' = st.packages_data
                /\ stderr' = st.stderr
       ELSE UNCHANGED <<stderr, packages_data>>
    /\ main_pc' = "txt"
    /\ UNCHANGED <<pkg_map, graph, in_degree, queue, sorted_packages,
                   remaining, sort_pc, recipes_dir, yaml_file, txt_file,
                   build_plan>>

\* lines 278-281
MainReadTxt ==
    /\ main_pc = "txt"
    /\ IF packages_data = <<>> /\ txt_file.exists
       THEN /\ stderr' = Append(stderr, <<"Reading from packages.txt">>)
            /\ packages_data' = ReadTxtConfig(txt_file)
       ELSE UNCHANGED <<stderr, packages_data>>
    /\ main_pc' = "check"
    /\ UNCHANGED <<pkg_map, graph, in_degree, queue, sorted_packages,
                   remaining, sort_pc, recipes_dir, yaml_file, txt_file,
                   build_plan>>

\* a check of line 283 that never finds the list empty
NoPackagesNever(pd) == FALSE

\* line 283: not packages_data
NoPackages(pd) == pd = <<>>

\* lines 283-285
MainNoConfig ==
    /\ main_pc = "check"
    /\ NoPackages(packages_data)
    /\ stderr' = Append(stderr, <<"Error: No package configuration found">>)
    /\ main_pc' = "exit1"
    /\ UNCHANGED <<packages_data, pkg_map, graph, in_degree, queue,
                   sorted_packages, remaining, sort_pc, recipes_dir,
                   yaml_file, txt_file, build_plan>>

\* line 288: the call of topological_sort(packages_data)
MainCallSort ==
    /\ main_pc = "check"
    /\ ~NoPackages(packages_data)
    /\ sort_pc' = "start"
    /\ main_pc' = "sorting"
    /\ UNCHANGED <<packages_data, pkg_map, graph, in_degree, queue,
                   sorted_packages, remaining, stderr, recipes_dir,
                   yaml_file, txt_file, build_plan>>

\* lines 296-303: the records here have no host dependencies and no patches
InfoParts(pkg) ==
    IF pkg.build_dependencies # <<>>
    THEN <<<<"build deps", pkg.build_dependencies>>>>
    ELSE <<>>

\* lines 295-304: one line for each package
SummaryLines(pd) == [i \in 1..Len(pd) |-> <<"  - ", pd[i].spec, InfoParts(pd[i])>>]

\* lines 288-304: topological_sort has returned; the plan is printed to
\* sys.stdout and the summary to sys.stderr
MainPrint ==
    /\ main_pc = "sorting"
    /\ sort_pc = "returned"
    /\ packages_data' = sorted_packages
    /\ build_plan' = Append(build_plan, sorted_packages)
    /\ stderr' = Append(stderr, <<"Found packages", Len(sorted_packages)>>)
                     \o SummaryLines(sorted_packages)
    /\ main_pc' = "done"
    /\ UNCHANGED <<pkg_map, graph, in_degree, queue, sorted_packages,
                   remaining, sort_pc, recipes_dir, yaml_file, txt_file>>

vars == <<sortVars, nameVars, indexVars, mainVars>>

\* one program runs at a time: the variables of the others rest
Resting(running) ==
    /\ IF running = "sort" THEN TRUE ELSE SortIdle
    /\ IF running = "name" THEN TRUE ELSE NameIdle
    /\ IF running = "index" THEN TRUE ELSE IndexIdle
    /\ IF running = "main" THEN TRUE ELSE MainIdle

InitSort == Resting("sort") /\ SortInit

SortNext ==
    \/ SortBuild /\ UNCHANGED <<nameVars, indexVars, mainVars>>
    \/ SortStep /\ UNCHANGED <<nameVars, indexVars, mainVars>>
    \/ SortFail /\ UNCHANGED <<nameVars, indexVars, mainVars>>
    \/ SortReturn /\ UNCHANGED <<nameVars, indexVars, mainVars>>

SpecSort == InitSort /\ [][SortNext]_vars

\* the interpreter runs the function to its end
FairSpecSort == SpecSort /\ WF_vars(SortNext)

InitName == Resting("name") /\ NameInit

NameNext ==
    \/ CallGetPackageName /\ UNCHANGED <<sortVars, indexVars, mainVars>>
    \/ CallRename /\ UNCHANGED <<sortVars, indexVars, mainVars>>
    \/ CallRenameBack /\ UNCHANGED <<sortVars, indexVars, mainVars>>

SpecName == InitName /\ [][NameNext]_vars

InitIndex == Resting("index") /\ IndexInit

IndexNext ==
    \/ IndexLoad /\ UNCHANGED <<sortVars, nameVars, mainVars>>
    \/ IndexScan /\ UNCHANGED <<sortVars, nameVars, mainVars>>
    \/ IndexEmpty /\ UNCHANGED <<sortVars, nameVars, mainVars>>
    \/ IndexStartGroups /\ UNCHANGED <<sortVars, nameVars, mainVars>>
    \/ IndexGroup /\ UNCHANGED <<sortVars, nameVars, mainVars>>
    \/ IndexRoot /\ UNCHANGED <<sortVars, nameVars, mainVars>>

SpecIndex == InitIndex /\ [][IndexNext]_vars

\* two builds of the same inputs, one after the other
RebuildNext ==
    \/ IndexLoad /\ UNCHANGED <<sortVars, nameVars, mainVars>>
    \/ IndexScan /\ UNCHANGED <<sortVars, nameVars, mainVars>>
    \/ IndexEmpty /\ UNCHANGED <<sortVars, nameVars, mainVars>>
    \/ IndexStartGroups /\ UNCHANGED <<sortVars, nameVars, mainVars>>
    \/ IndexGroup /\ UNCHANGED <<sortVars, nameVars, mainVars>>
    \/ IndexRoot /\ UNCHANGED <<sortVars, nameVars, mainVars>>
    \/ IndexRunAgain /\ UNCHANGED <<sortVars, nameVars, mainVars>>

SpecRebuild == InitIndex /\ [][RebuildNext]_vars

InitMain == Resting("main") /\ MainInit

\* main, with the steps of topological_sort where it is called
MainNext ==
    \/ MainReadRecipes /\ UNCHANGED <<nameVars, indexVars>>
    \/ MainReadYaml /\ UNCHANGED <<nameVars, indexVars>>
    \/ MainReadTxt /\ UNCHANGED <<nameVars, indexVars>>
    \/ MainNoConfig /\ UNCHANGED <<nameVars, indexVars>>
    \/ MainCallSort /\ UNCHANGED <<nameVars, indexVars>>
    \/ SortBuild /\ UNCHANGED <<nameVars, indexVars, mainVars>>
    \/ SortStep /\ UNCHANGED <<nameVars, indexVars, mainVars>>
    \/ SortFail /\ UNCHANGED <<nameVars, indexVars, mainVars>>
    \/ SortReturn /\ UNCHANGED <<nameVars, indexVars, mainVars>>
    \/ MainPrint /\ UNCHANGED <<nameVars, indexVars>>

SpecMain == InitMain /\ [][MainNext]_vars

(***************************************************************************)
(* The dependency graph as the specification describes it, stated without  *)
(* the algorithm: used by the properties only.                             *)
(***************************************************************************)
\* b lists a in build_dependencies and a is the name of a record
DependsOn(pd, b, a) ==
    /\ a \in NamesOf(pd)
    /\ \E i \in 1..Len(pd) :
          pd[i].name = b /\ a \in Range(pd[i].build_dependencies)

\* S with the records that depend on a member of S
WithDependents(pd, S) ==
    S \cup {b \in NamesOf(pd) : \E a \in S : DependsOn(pd, b, a)}

RECURSIVE Iterate(_, _, _)
Iterate(pd, S, n) ==
    IF n = 0 THEN S ELSE Iterate(pd, WithDependents(pd, S), n - 1)

\* the records that depend on a in one step or more
DependentsOf(pd, a) ==
    Iterate(pd, {b \in NamesOf(pd) : DependsOn(pd, b, a)}, Len(pd))

OnCycle(pd, a) == a \in DependentsOf(pd, a)

HasCycle(pd) == \E a \in NamesOf(pd) : OnCycle(pd, a)

\* on a cycle, or depending on one through any number of steps
BlockedByCycle(pd) ==
    Iterate(pd, {a \in NamesOf(pd) : OnCycle(pd, a)}, Len(pd))

SortedNames == {sorted_packages[i].name : i \in 1..Len(sorted_packages)}

NameSeq(recs) == [i \in 1..Len(recs) |-> recs[i].name]

\* the build_dependencies entries that name no record: <<record, position>>
MissingEntries(pd) ==
    {e \in (1..Len(pd)) \X (1..MaxDepEntries + 1) :
        /\ e[2] <= Len(pd[e[1]].build_dependencies)
        /\ pd[e[1]].build_dependencies[e[2]] \notin NamesOf(pd)}

ResolvableEntries(pd) ==
    {e \in (1..Len(pd)) \X (1..MaxDepEntries + 1) :
        /\ e[2] <= Len(pd[e[1]].build_dependencies)
        /\ pd[e[1]].build_dependencies[e[2]] \in NamesOf(pd)}

\* pd with entry k of record i's build_dependencies taken out
RemoveEntry(pd, i, k) ==
    [pd EXCEPT ![i].build_dependencies =
        SubSeq(@, 1, k - 1) \o SubSeq(@, k + 1, Len(@))]

(***************************************************************************)
(* C1: when topological_sort returns, the returned list is a permutation   *)
(* of the input (every input record exactly once, unmodified, metadata     *)
(* included), and every record stands after each record it resolvably      *)
(* depends on.                                                             *)
(***************************************************************************)
C1_ReturnsOrderedPermutation ==
    sort_pc = "returned" =>
        /\ Len(sorted_packages) = Len(packages_data)
        /\ \A i \in 1..Len(packages_data) :
              Cardinality({j \in 1..Len(sorted_packages) :
                              sorted_packages[j] = packages_data[i]}) = 1
        /\ \A i, j \in 1..Len(sorted_packages) :
              DependsOn(packages_data, sorted_packages[j].name,
                        sorted_packages[i].name) => i < j

\* a list of three records returned although the input had a dependent
\* before its dependency
C1_Witness ==
    /\ sort_pc = "returned"
    /\ Len(packages_data) = 3
    /\ DependsOn(packages_data, packages_data[1].name, packages_data[3].name)
    /\ DependsOn(packages_data, packages_data[2].name, packages_data[3].name)

(***************************************************************************)
(* C2: topological_sort terminates, and it ends in the circular-dependency *)
(* exit exactly when the resolvable dependency edges contain a cycle       *)
(* (a self-dependency included); otherwise it returns.                     *)
(***************************************************************************)
\* what is left to do: the records not yet appended, and the steps around
\* the loop
SortMeasure ==
    (Len(packages_data) - Len(sorted_packages))
      + (CASE sort_pc = "start" -> 2
           [] sort_pc = "loop" -> 1
           [] OTHER -> 0)

\* every step lowers a natural number, and until the function has returned
\* or exited it stands at "start" or "loop", where the guards of SortBuild
\* and of SortStep, SortFail, SortReturn leave one step possible: it
\* terminates; and the way it ends tells whether there is a cycle
C2_TerminatesFailsIffCycle ==
    /\ [][SortMeasure' < SortMeasure]_vars
    /\ [](SortMeasure \in Nat)
    /\ [](sort_pc \in {"start", "loop", "returned", "exit1"})
    /\ [](sort_pc = "exit1" => HasCycle(packages_data))
    /\ [](sort_pc = "returned" => ~HasCycle(packages_data))

\* the fatal exit on a record that depends on itself
C2_Witness ==
    /\ sort_pc = "exit1"
    /\ \E i \in 1..Len(packages_data) :
          packages_data[i].name \in Range(packages_data[i].build_dependencies)

(***************************************************************************)
(* C3: on failure the reported names are exactly the records not appended  *)
(* to the output: every record on a cycle or depending on a cycle through  *)
(* any number of steps, and none that was ordered.                         *)
(***************************************************************************)
C3_ReportsExactlyTheUnsorted ==
    sort_pc = "exit1" =>
        /\ Range(remaining) = NamesOf(packages_data) \ SortedNames
        /\ Range(remaining) = BlockedByCycle(packages_data)
        /\ Range(remaining) \cap SortedNames = {}

\* a failure after one record was ordered, reporting a record that is on
\* no cycle itself
C3_Witness ==
    /\ sort_pc = "exit1"
    /\ sorted_packages # <<>>
    /\ \E n \in Range(remaining) : ~OnCycle(packages_data, n)

(***************************************************************************)
(* C4: each iteration of the Kahn loop appends the record of the smallest  *)
(* name among the records of in-degree zero not yet in the output; so      *)
(* with no resolvable dependency at all the output is every record in      *)
(* ascending name order.                                                   *)
(***************************************************************************)
ReadyNames == {n \in DOMAIN in_degree : in_degree[n] = 0 /\ n \notin SortedNames}

IsSmallest(n, S) == n \in S /\ \A m \in S \ {n} : StrLess(n, m)

C4_AppendsSmallestReady ==
    /\ [][sorted_packages' # sorted_packages =>
            /\ Len(sorted_packages') = Len(sorted_packages) + 1
            /\ SubSeq(sorted_packages', 1, Len(sorted_packages)) = sorted_packages
            /\ IsSmallest(sorted_packages'[Len(sorted_packages')].name, ReadyNames)
         ]_vars
    /\ []((sort_pc = "returned" /\ ResolvableEntries(packages_data) = {}) =>
            /\ SortedNames = NamesOf(packages_data)
            /\ \A i, j \in 1..Len(sorted_packages) :
                  i < j => StrLess(sorted_packages[i].name, sorted_packages[j].name))

\* in the loop, after a first record was appended, with two ready records
\* that stand in the queue in descending order
C4_Witness ==
    /\ sort_pc = "loop"
    /\ sorted_packages # <<>>
    /\ Len(queue) >= 2
    /\ StrLess(queue[2], queue[1])

(***************************************************************************)
(* C5: a build_dependencies entry that names no record adds no edge and    *)
(* no in-degree, is warned about, leaves the outcome what it would be      *)
(* with the entry removed, and is never by itself a reason to fail.        *)
(***************************************************************************)
SumLen(f) ==
    LET RECURSIVE Sum(_)
        Sum(S) == IF S = {} THEN 0
                  ELSE LET n == CHOOSE n \in S : TRUE
                       IN  Len(f[n]) + Sum(S \ {n})
    IN  Sum(DOMAIN f)

C5_MissingDependencyIgnored ==
    /\ sort_pc = "loop" =>
          SumLen(graph) = Cardinality(ResolvableEntries(packages_data))
    /\ (sort_pc = "loop" /\ sorted_packages = <<>>) =>
          \A i \in 1..Len(packages_data) :
             in_degree[packages_data[i].name] =
                Cardinality({e \in ResolvableEntries(packages_data) : e[1] = i})
    /\ sort_pc \in {"returned", "exit1"} =>
          /\ \A e \in MissingEntries(packages_data) :
                LET r == TopologicalSort(RemoveEntry(packages_data, e[1], e[2]))
                    rec == packages_data[e[1]]
                IN  /\ <<"Warning", rec.name, rec.build_dependencies[e[2]]>>
                          \in Range(stderr)
                    /\ (sort_pc = "returned") = (r.exit = 0)
                    /\ sort_pc = "returned" =>
                          NameSeq(sorted_packages) = NameSeq(r.sorted_packages)
                    /\ sort_pc = "exit1" => remaining = r.remaining
          /\ ResolvableEntries(packages_data) = {} => sort_pc = "returned"

\* a returned order for a list with a dependency on an unknown name next
\* to a resolvable one
C5_Witness ==
    /\ sort_pc = "returned"
    /\ MissingEntries(packages_data) # {}
    /\ ResolvableEntries(packages_data) # {}

(***************************************************************************)
(* Filenames as the specification describes them, by character position:   *)
(* used by the properties only.                                            *)
(***************************************************************************)
\* f is <stem>.whl and the extension occurs nowhere else in it
IsWheelFilename(f) ==
    /\ Len(f) >= Len(WHL)
    /\ SubSeq(f, Len(f) - 3, Len(f)) = WHL
    /\ \A k \in 1..(Len(f) - 4) : SubSeq(f, k, k + 3) # WHL

Stem(f) == SubSeq(f, 1, Len(f) - 4)

\* where a segment that starts with a decimal digit starts
VersionStarts(s) ==
    {p \in 1..Len(s) : (p = 1 \/ s[p - 1] = "-") /\ s[p] \in Digits}

FirstVersionStart(s) ==
    CHOOSE p \in VersionStarts(s) : \A q \in VersionStarts(s) : p <= q

Hyphenated(t) == [i \in 1..Len(t) |-> IF t[i] = "_" THEN "-" ELSE t[i]]

Underscored(t) == [i \in 1..Len(t) |-> IF t[i] = "-" THEN "_" ELSE t[i]]

\* the characters before the first "-", or all of them
FirstSegment(s) ==
    IF Contains(s, "-")
    THEN SubSeq(s, 1, (CHOOSE k \in 1..Len(s) :
                          s[k] = "-" /\ \A j \in 1..(k - 1) : s[j] # "-") - 1)
    ELSE s

\* the characters before the "-" in front of the first version-like
\* segment, or the first segment when there is none
IdentityPart(s) ==
    IF VersionStarts(s) # {}
    THEN SubSeq(s, 1, FirstVersionStart(s) - 2)
    ELSE FirstSegment(s)

\* distribution names none of whose segments starts with a digit
DistNames ==
    {<<"a">>, <<"A">>, <<"a", "-", "A">>, <<"a", "_", "a">>,
     <<"a", "_", "a", "-", "A">>}

(***************************************************************************)
(* C6: for a filename <stem>.whl, get_package_name_from_wheel returns the  *)
(* segments before the first segment that starts with a digit, joined by   *)
(* '-', underscores turned into hyphens and case kept, so that a name of   *)
(* several segments in front of a version is recovered; with no such       *)
(* segment it returns the first segment, underscores turned into hyphens.  *)
(***************************************************************************)
C6_IdentityIsPartBeforeVersion ==
    (name_pc # "start" /\ IsWheelFilename(wheel_filename)) =>
        /\ package_name = Hyphenated(IdentityPart(Stem(wheel_filename)))
        /\ \A n \in DistNames :
              HasPrefix(wheel_filename, n \o <<"-", "1">>) =>
                  package_name = Hyphenated(n)

\* "a_a-A-1.whl" parsed as "a-a-A"
C6_Witness ==
    /\ name_pc = "parsed"
    /\ wheel_filename = <<"a", "_", "a", "-", "A", "-", "1">> \o WHL
    /\ package_name = <<"a", "-", "a", "-", "A">>

(***************************************************************************)
(* C7: when nothing is left of the filename once the extension is          *)
(* stripped ('.whl', or the empty string), get_package_name_from_wheel     *)
(* returns None.                                                           *)
(***************************************************************************)
C7_EmptyStemReturnsNone ==
    (name_pc # "start" /\ wheel_filename \in {<<>>, WHL}) =>
        package_name = None

\* the groups that hold the archive at path p
GroupsOf(p) ==
    {i \in 1..Len(packages) :
        \E k \in 1..Len(packages[i].wheels) : packages[i].wheels[k][2] = p}

\* the archives the scan has put in a group
Grouped == {p \in globbed : GroupsOf(p) # {}}

(***************************************************************************)
(* C8: the index builder groups archives by their parsed identity compared *)
(* as exact strings: every scanned archive with an identity is in the one  *)
(* group named by it, two grouped archives share a group exactly when      *)
(* their identities are equal, and archives whose identities differ only   *)
(* in letter case are in two groups, neither holding the other's archive.  *)
(***************************************************************************)
C8_GroupsByExactIdentity ==
    /\ \A i, j \in 1..Len(packages) :
          packages[i].name = packages[j].name => i = j
    /\ \A p \in globbed :
          LET identity == GetPackageNameFromWheel(p[2])
          IN  IF Truthy(identity)
              THEN /\ Cardinality(GroupsOf(p)) = 1
                   /\ \A i \in GroupsOf(p) :
                         /\ packages[i].name = identity
                         /\ Cardinality({k \in 1..Len(packages[i].wheels) :
                                packages[i].wheels[k] = <<p[2], p>>}) = 1
              ELSE GroupsOf(p) = {}
    /\ \A p, q \in Grouped :
          LET identity_p == GetPackageNameFromWheel(p[2])
              identity_q == GetPackageNameFromWheel(q[2])
          IN  /\ (GroupsOf(p) = GroupsOf(q)) <=> (identity_p = identity_q)
              /\ (/\ identity_p # identity_q
                  /\ LowerStr(identity_p) = LowerStr(identity_q)) =>
                    GroupsOf(p) \cap GroupsOf(q) = {}

\* "Py-1.whl" and "py-1.whl" scanned into the groups "Py" and "py", and
\* the pages written
C8_Witness ==
    /\ index_pc = "done"
    /\ \E i, j \in 1..Len(packages) :
          /\ packages[i].name = <<"P", "y">>
          /\ packages[j].name = <<"p", "y">>
          /\ packages[i].wheels = <<<<WheelPy, <<"", WheelPy>>>>>>
          /\ packages[j].wheels = <<<<Wheelpy, <<"", Wheelpy>>>>>>

(***************************************************************************)
(* C9: for a filename <stem>.whl with a version, whose parsed identity     *)
(* equals old_name case-insensitively, rename_wheel_for_alias returns      *)
(* new_name followed by everything from the version on, unchanged;         *)
(* new_name is written with '_' for '-' exactly when the identity part of  *)
(* the filename holds an underscore.                                       *)
(***************************************************************************)
C9_RenameReplacesIdentity ==
    (/\ name_pc = "renamed"
     /\ IsWheelFilename(wheel_filename)
     /\ VersionStarts(Stem(wheel_filename)) # {}
     /\ LowerStr(package_name) = LowerStr(old_name)) =>
        LET p == FirstVersionStart(Stem(wheel_filename))
            written == IF Contains(IdentityPart(Stem(wheel_filename)), "_")
                       THEN Underscored(new_name)
                       ELSE new_name
        IN  renamed = written \o <<"-">>
                        \o SubSeq(wheel_filename, p, Len(wheel_filename))

\* an identity with an underscore renamed to a name with a hyphen, with a
\* segment after the version
C9_Witness ==
    /\ name_pc = "renamed"
    /\ wheel_filename = <<"a", "_", "a", "-", "1", "-", "a">> \o WHL
    /\ old_name = <<"a", "-", "a">>
    /\ new_name = <<"a", "-", "1">>
    /\ renamed = <<"a", "_", "1", "-", "1", "-", "a">> \o WHL

(***************************************************************************)
(* C10: rename_wheel_for_alias finds the identity where                    *)
(* get_package_name_from_wheel finds it: when the parsed identity is not   *)
(* old_name (compared case-insensitively), or no segment starts with a     *)
(* digit, the filename comes back unchanged.                               *)
(***************************************************************************)
C10_MismatchLeavesFilename ==
    (/\ name_pc = "renamed"
     /\ IsWheelFilename(wheel_filename)
     /\ \/ LowerStr(package_name) # LowerStr(old_name)
        \/ VersionStarts(Stem(wheel_filename)) = {}) =>
        renamed = wheel_filename

(***************************************************************************)
(* C11: the rename round trip: for a filename <stem>.whl whose parsed      *)
(* identity is old_name and any new_name, renaming from old_name to        *)
(* new_name and the result back from new_name to old_name gives the        *)
(* filename again, exactly.                                                *)
(***************************************************************************)
C11_RenameRoundTrip ==
    (/\ name_pc = "restored"
     /\ IsWheelFilename(wheel_filename)
     /\ package_name = old_name) =>
        restored = wheel_filename

\* the entries of packages_metadata that configure an alias
AliasPairs ==
    {packages_metadata[i] : i \in {j \in 1..Len(packages_metadata) :
                                      packages_metadata[j].alias # <<>>}}

\* the page of name is there and links the wheels of group, one by one,
\* under the filenames given by renamed_as, with the hashes of their
\* contents, and the files stored under these filenames have these hashes
PageLinksGroup(name, group, renamed_as) ==
    /\ name \in DOMAIN site
    /\ Len(site[name].index) = Len(group.wheels)
    /\ \A k \in 1..Len(group.wheels) :
          LET link == site[name].index[k]
              source_hash == CalculateHash(Contents(wheels_dir)[group.wheels[k][2]])
          IN  /\ link[1] = renamed_as[k]
              /\ link[2] = source_hash
              /\ link[1] \in DOMAIN site[name].files
              /\ CalculateHash(site[name].files[link[1]]) = source_hash

(***************************************************************************)
(* C12: after the build, a group whose identity equals, ignoring case, the *)
(* artifact name of a configured pair and is not the pair's configured     *)
(* name has its page under its identity and a second page under the        *)
(* configured name; the second page links every archive of the group once, *)
(* under the filename rename_wheel_for_alias gives, and the hash in each   *)
(* link and the hash of the copied file are the hash of the source archive *)
(* linked from the first page.                                             *)
(***************************************************************************)
C12_AliasPageMirrorsGroup ==
    index_pc = "done" =>
        \A g \in 1..Len(packages) : \A pair \in AliasPairs :
            LET group == packages[g]
            IN  (/\ LowerStr(group.name) = LowerStr(pair.alias)
                 /\ group.name # pair.name) =>
                    /\ group.name \in DOMAIN site
                    /\ Len(site[group.name].index) = Len(group.wheels)
                    /\ \A k \in 1..Len(group.wheels) :
                          site[group.name].index[k][2] =
                              CalculateHash(Contents(wheels_dir)[group.wheels[k][2]])
                    /\ PageLinksGroup(pair.name, group,
                          [k \in 1..Len(group.wheels) |->
                              RenameWheelForAlias(group.wheels[k][1],
                                                  group.name, pair.name)])

\* the names of the groups
GroupNames == {packages[i].name : i \in 1..Len(packages)}

\* s is in strictly ascending order
Ascending(s) == \A i \in 1..(Len(s) - 1) : StrLess(s[i], s[i + 1])

(***************************************************************************)
(* C13: the root index is written when every group has its pages, no page  *)
(* is written after it, and it lists in ascending order, each once,        *)
(* exactly the names under which a page was written: the identities of     *)
(* the groups and the configured names of their alias pages.               *)
(***************************************************************************)
C13_RootIndexListsWrittenPages ==
    /\ [](root_index # Unset =>
            /\ index_pc = "done"
            /\ next_group = Len(packages)
            /\ GroupNames \subseteq DOMAIN site
            /\ Range(root_index) = DOMAIN site
            /\ Ascending(root_index))
    /\ [][root_index # Unset => (site' = site /\ root_index' = root_index)]_vars
    /\ [][site' # site => root_index' = Unset]_vars

\* a root index of two groups and an alias page
C13_Witness ==
    /\ index_pc = "done"
    /\ Len(packages) = 2
    /\ Len(root_index) = 3
    /\ \E n \in Range(root_index) : n \notin GroupNames

(***************************************************************************)
(* C14: when the scan ends with no archive of a usable identity, the       *)
(* builder does not stop short: its next step ends the build with a root   *)
(* index that lists no package, and no listing page is written.            *)
(***************************************************************************)
C14_EmptyScanWritesEmptyRoot ==
    /\ []((index_pc = "done" /\ packages = <<>>) =>
            (root_index = <<>> /\ site = <<>>))
    /\ []((index_pc = "scan" /\ globbed = Paths(wheels_dir) /\ packages = <<>>) =>
            ENABLED IndexEmpty)
    /\ [][(index_pc = "scan" /\ globbed = Paths(wheels_dir) /\ packages = <<>>) =>
            (index_pc' = "done" /\ root_index' = <<>> /\ site' = <<>>)]_vars

\* the build is over, the one archive had no usable identity
C14_Witness ==
    /\ index_pc = "done"
    /\ wheels_dir # {}
    /\ globbed = Paths(wheels_dir)
    /\ packages = <<>>
    /\ root_index = <<>>

(***************************************************************************)
(* C15: a second build of the same archives with the same alias            *)
(* configuration gives the output of the first, whatever the order of the  *)
(* two scans: the same root page and, for every name, the same listing     *)
(* page, with the same links in the same order with the same hashes.       *)
(***************************************************************************)
C15_RebuildGivesSameOutput ==
    (index_pc = "done" /\ previous_output # NoOutput) =>
        Output(root_index, site) = previous_output

\* main has printed that it reads packages.txt
TxtRead == <<"Reading from packages.txt">> \in Range(stderr)

(***************************************************************************)
(* C16: when main has read its sources, every package of a recipe is in    *)
(* the list as the recipe gives it; a package of packages.yaml is in the   *)
(* list only if no package of its name was defined before it; and          *)
(* packages.txt was read only if there is neither a recipes directory nor  *)
(* a packages.yaml.                                                        *)
(***************************************************************************)
C16_ConfigurationPrecedence ==
    main_pc = "check" =>
        LET from_recipes == ReadRecipesDir(recipes_dir).packages_data
        IN  /\ TxtRead => (~recipes_dir.exists /\ ~yaml_file.exists)
            /\ ~TxtRead =>
                 /\ Len(from_recipes) <= Len(packages_data)
                 /\ SubSeq(packages_data, 1, Len(from_recipes)) = from_recipes
                 /\ \A i \in (Len(from_recipes) + 1)..Len(packages_data) :
                       /\ packages_data[i] \in
                              Range(ReadYamlConfig(yaml_file).packages_data)
                       /\ \A j \in 1..(i - 1) :
                             packages_data[j].name # packages_data[i].name

(***************************************************************************)
(* C17: main prints the build plan only when topological_sort has          *)
(* returned: with no package from any source its next step is the fatal    *)
(* exit, with a cycle among the dependencies topological_sort exits, and   *)
(* in a run that exits nothing has been printed to sys.stdout.             *)
(***************************************************************************)
C17_PlanOnlyAfterResolution ==
    /\ [](build_plan # <<>> =>
            /\ main_pc = "done"
            /\ sort_pc = "returned"
            /\ build_plan = <<sorted_packages>>
            /\ sorted_packages # <<>>
            /\ ~HasCycle(sorted_packages))
    /\ []((main_pc = "exit1" \/ sort_pc = "exit1") => build_plan = <<>>)
    /\ [][(main_pc = "check" /\ packages_data = <<>>) =>
            (main_pc' = "exit1" /\ build_plan' = <<>>)]_vars
    /\ []((main_pc = "sorting" /\ HasCycle(packages_data)) =>
            sort_pc # "returned")
    /\ [][(/\ main_pc = "sorting" /\ sort_pc = "loop" /\ queue = <<>>
           /\ HasCycle(packages_data)) =>
            (sort_pc' = "exit1" /\ build_plan' = <<>>)]_vars
    /\ [][build_plan # <<>> => build_plan' = build_plan]_vars

\* the recipe "a" needs "B" and the "B" of packages.yaml needs "a":
\* topological_sort has exited and nothing is printed
C17_Witness ==
    /\ main_pc = "sorting"
    /\ sort_pc = "exit1"
    /\ Len(packages_data) = 2
    /\ NamesOf(packages_data) = {<<"a">>, <<"B">>}
    /\ HasCycle(packages_data)
    /\ build_plan = <<>>

(***************************************************************************)
(* C18: after the alias configuration is loaded, the two lookup maps are   *)
(* inverse to each other: every configured pair is found from either side  *)
(* (the name in one map gives the other name of the pair), and a name      *)
(* looked up in one map and the result in the other gives the name again.  *)
(***************************************************************************)
C18_AliasMapsMutuallyInverse ==
    index_pc \notin {"idle", "load"} =>
        /\ \A pair \in AliasPairs :
              /\ Get(package_aliases, LowerStr(pair.alias)) = pair.name
              /\ Get(alias_to_canonical, LowerStr(pair.name)) = pair.alias
        /\ \A k \in DOMAIN package_aliases :
              LowerStr(Get(alias_to_canonical,
                           LowerStr(package_aliases[k]))) = k
        /\ \A k \in DOMAIN alias_to_canonical :
              LowerStr(Get(package_aliases,
                           LowerStr(alias_to_canonical[k]))) = k

\* the lists with the records of pd in another order
Reorderings(pd) ==
    {[i \in 1..Len(pd) |-> pd[f[i]]] :
        f \in {g \in [1..Len(pd) -> 1..Len(pd)] :
                 \A i, j \in 1..Len(pd) : g[i] = g[j] => i = j}}

(***************************************************************************)
(* C19: for records of distinct names the order topological_sort returns   *)
(* does not depend on the order of the input list: the call on any         *)
(* permutation of the list returns the same sequence of names, and exits   *)
(* when the call on the list exits.                                        *)
(***************************************************************************)
C19_OrderIndependentOfInputOrder ==
    /\ sort_pc = "returned" =>
          \A permuted \in Reorderings(packages_data) :
              LET result == TopologicalSort(permuted)
              IN  /\ result.exit = 0
                  /\ NameSeq(result.sorted_packages) = NameSeq(sorted_packages)
    /\ sort_pc = "exit1" =>
          \A permuted \in Reorderings(packages_data) :
              TopologicalSort(permuted).exit = 1

\* "a" before "B" in the list, neither needing the other but "ab" needing
\* "a": the order returned is "B", "a", "ab"
C19_Witness ==
    /\ sort_pc = "returned"
    /\ NameSeq(packages_data) = <<<<"a", "b">>, <<"a">>, <<"B">>>>
    /\ packages_data[1].build_dependencies = <<<<"a">>>>
    /\ NameSeq(sorted_packages) = <<<<"B">>, <<"a">>, <<"a", "b">>>>

(***************************************************************************)
(* C20: the alias lookup works in both directions: after the build, for a  *)
(* configured pair of a configured name and a different artifact name, a   *)
(* group whose identity is the configured name, ignoring case, and not the *)
(* artifact name has a second page under the artifact name that links      *)
(* each of its archives once, just as a group whose identity is the        *)
(* artifact name has one under the configured name.                        *)
(***************************************************************************)
C20_AliasAppliedBothWays ==
    index_pc = "done" =>
        \A g \in 1..Len(packages) : \A pair \in AliasPairs :
            (/\ pair.name # pair.alias
             /\ LowerStr(packages[g].name) = LowerStr(pair.name)
             /\ packages[g].name # pair.alias) =>
                /\ pair.alias \in DOMAIN site
                /\ pair.alias \in Range(root_index)
                /\ Len(site[pair.alias].index) = Len(packages[g].wheels)

\* every link of the page of name refers to a file stored beside the page
\* whose content has the hash the link gives
LinksMatchFiles(name) ==
    \A k \in 1..Len(site[name].index) :
        LET link == site[name].index[k]
        IN  /\ link[1] \in DOMAIN site[name].files
            /\ CalculateHash(site[name].files[link[1]]) = link[2]

(***************************************************************************)
(* C21: after the build every link of every listing page agrees with the   *)
(* stored file: the file of the link's filename in the page's directory    *)
(* has content of the link's hash, also when the scan found one filename   *)
(* in two directories and when two archives of a group are renamed to one  *)
(* filename for an alias page.                                             *)
(***************************************************************************)
C21_LinksMatchStoredFiles ==
    index_pc = "done" => \A name \in DOMAIN site : LinksMatchFiles(name)

\* the filenames the page of name links
LinkedFilenames(name) ==
    {site[name].index[k][1] : k \in 1..Len(site[name].index)}

(***************************************************************************)
(* C22: within one build a listing page is written by one group only: a    *)
(* page that was written is not written again by a later group, be it as   *)
(* the page of that group's identity or as its alias page, so that after   *)
(* the build every archive of a non-empty identity is linked under its     *)
(* own filename from the page of its identity.                             *)
(***************************************************************************)
C22_PageWrittenByOneGroup ==
    /\ [][\A name \in DOMAIN site :
            /\ name \in DOMAIN site'
            /\ site'[name].index = site[name].index]_vars
    /\ [](index_pc = "done" =>
            \A w \in wheels_dir :
                LET identity == GetPackageNameFromWheel(w.path[2])
                IN  Truthy(identity) =>
                        /\ identity \in DOMAIN site
                        /\ w.path[2] \in LinkedFilenames(identity))

(***************************************************************************)
(* C23: topological_sort reports a circular dependency only when a record  *)
(* is really left unordered: whenever it exits, for the lists main hands   *)
(* it, two records of one name included, the list of names it reports is   *)
(* not empty and the resolvable dependencies of the input have a cycle.    *)
(***************************************************************************)
C23_FailureNamesARealCycle ==
    sort_pc = "exit1" =>
        /\ remaining # <<>>
        /\ HasCycle(packages_data)

====
